---- MODULE Spec2Model ----
(***************************************************************************)
(* Model of blocks/docs-renderer/docs-renderer.js: the highlighter loader  *)
(* (loadPrism), the mount pipeline (decorate), slugify, normalizeLang,     *)
(* highlightCodeBlocks, addCopyButtons, addHeadingAnchors and buildTOC.    *)
(*                                                                         *)
(* JavaScript strings that the code inspects character by character are    *)
(* sequences of one-character strings; "U+00C9" and "U+00E9" stand for the *)
(* single characters E-acute (upper and lower case).                       *)
(***************************************************************************)
EXTENDS Integers, Sequences, FiniteSets, TLC

(* ------------------------------ bounds ------------------------------- *)

\* number of docs-renderer blocks mounted on the page
MaxMounts == 2

\* longest text handed to slugify in SpecSlug
MaxLen == 4

\* most module fetches that fail during the page's lifetime
MaxLoadFailures == 1

\* most headings in a rendered document of SpecDoc
MaxHeadings == 3

\* most times addHeadingAnchors is run on one subtree in SpecDoc
MaxRuns == 2

\* most activations of TOC entries in SpecDoc and SpecPage
MaxTocClicks == 2

\* most callbacks of the visibility observer in SpecPage
MaxObserverCalls == 2

\* most entries the observer reports in one callback
MaxBatch == 2

\* most changes of the URL fragment from outside the block in SpecPage
MaxFragmentChanges == 1

\* most code blocks in a rendered document of SpecLang
MaxCodeBlocks == 2

\* number of pre blocks that carry a Copy control in SpecCopy
MaxCopyBlocks == 2

\* most activations of Copy controls in SpecCopy
MaxClicks == 3

\* the seconds of page time SpecCopy follows
MaxTime == 4

\* the timer, click and observer callbacks SpecRender follows
MaxEvents == 2

Mounts == 1..MaxMounts

(* ------------------------------ slugify ------------------------------ *)

UpperSeq == <<"A", "B", "C", "D", "E", "F", "G", "H", "I", "J", "K", "L", "M",
              "N", "O", "P", "Q", "R", "S", "T", "U", "V", "W", "X", "Y", "Z">>

LowerSeq == <<"a", "b", "c", "d", "e", "f", "g", "h", "i", "j", "k", "l", "m",
              "n", "o", "p", "q", "r", "s", "t", "u", "v", "w", "x", "y", "z">>

DigitChars == {"0", "1", "2", "3", "4", "5", "6", "7", "8", "9"}

Range(f) == {f[i] : i \in DOMAIN f}

\* String.prototype.toLowerCase on one character
LowerChar(c) ==
    IF c \in Range(UpperSeq)
    THEN LowerSeq[CHOOSE i \in DOMAIN UpperSeq : UpperSeq[i] = c]
    ELSE IF c = "U+00C9" THEN "U+00E9" ELSE c

toLowerCase(s) == [i \in DOMAIN s |-> LowerChar(s[i])]

\* the regular expression class \w: [A-Za-z0-9_]
IsWord(c) == c \in Range(UpperSeq) \cup Range(LowerSeq) \cup DigitChars \cup {"_"}

RECURSIVE DropNonWord(_)
\* the rest of s after the run of non-word characters it starts with
DropNonWord(s) ==
    IF s = <<>> \/ IsWord(Head(s)) THEN s ELSE DropNonWord(Tail(s))

RECURSIVE ReplaceNonWordEach(_)
\* as .replace(/[^\w]/g, '-') would: every non-word character becomes a hyphen
ReplaceNonWordEach(s) ==
    IF s = <<>> THEN <<>>
    ELSE <<IF IsWord(Head(s)) THEN Head(s) ELSE "-">> \o ReplaceNonWordEach(Tail(s))

RECURSIVE ReplaceNonWordRuns(_)
\* .replace(/[^\w]+/g, '-'): every maximal run of non-word characters becomes one hyphen
ReplaceNonWordRuns(s) ==
    IF s = <<>> THEN <<>>
    ELSE IF IsWord(Head(s)) THEN <<Head(s)>> \o ReplaceNonWordRuns(Tail(s))
    ELSE <<"-">> \o ReplaceNonWordRuns(DropNonWord(s))

\* .replace(/(^-|-$)/g, ''): one hyphen off the start, then one off the end
TrimHyphens(s) ==
    LET a == IF Len(s) > 0 /\ s[1] = "-" THEN Tail(s) ELSE s
    IN  IF Len(a) > 0 /\ a[Len(a)] = "-" THEN SubSeq(a, 1, Len(a) - 1) ELSE a

slugify(text) == TrimHyphens(ReplaceNonWordRuns(toLowerCase(text)))

\* the characters SpecSlug builds its texts from
SlugChars == {"A", "b", "1", "_", "-", " ", "?", "U+00C9"}

RECURSIVE SeqsUpTo(_, _)
\* the sequences over S of length at most n
SeqsUpTo(S, n) ==
    IF n = 0 THEN {<<>>}
    ELSE LET shorter == SeqsUpTo(S, n - 1)
         IN  shorter \cup {Append(t, c) : t \in shorter, c \in S}

(* --------------------------- normalizeLang --------------------------- *)

\* the JavaScript values normalizeLang receives and returns: a string is its characters;
\* for a function or an object, chars holds the one text String(value) yields
Str(chars) == [kind |-> "string", chars |-> chars]
Undefined == [kind |-> "undefined", chars |-> <<>>]
Null == [kind |-> "null", chars |-> <<>>]
\* what calling a method that a value does not have raises
TypeError == [kind |-> "TypeError", chars |-> <<>>]

javascript == <<"j", "a", "v", "a", "s", "c", "r", "i", "p", "t">>
typescript == <<"t", "y", "p", "e", "s", "c", "r", "i", "p", "t">>
markup == <<"m", "a", "r", "k", "u", "p">>
bash == <<"b", "a", "s", "h">>
yaml == <<"y", "a", "m", "l">>

\* lines 3-11: the own properties of the object literal, as <<key, value>> pairs
LANG_MAP ==
    {<<<<"j", "s">>, javascript>>,
     <<<<"t", "s">>, typescript>>,
     <<<<"h", "t", "m", "l">>, markup>>,
     <<<<"x", "m", "l">>, markup>>,
     <<<<"s", "h">>, bash>>,
     <<<<"s", "h", "e", "l", "l">>, bash>>,
     <<<<"y", "m", "l">>, yaml>>}

\* the properties an object literal inherits from Object.prototype, among them those
\* whose names hold no upper-case letter (constructor, __proto__)
ObjectPrototype ==
    {<<<<"c", "o", "n", "s", "t", "r", "u", "c", "t", "o", "r">>,
       [kind |-> "function", chars |-> <<"function Object() { [native code] }">>]>>,
     <<<<"_", "_", "p", "r", "o", "t", "o", "_", "_">>,
       [kind |-> "object", chars |-> <<"[object Object]">>]>>,
     <<<<"t", "o", "S", "t", "r", "i", "n", "g">>,
       [kind |-> "function", chars |-> <<"function toString() { [native code] }">>]>>}

Keys(pairs) == {p[1] : p \in pairs}

\* the value paired with key k
ValueOf(pairs, k) == (CHOOSE p \in pairs : p[1] = k)[2]

\* LANG_MAP[l]: an own property, else an inherited one, else undefined
Lookup(l) ==
    IF l \in Keys(LANG_MAP) THEN Str(ValueOf(LANG_MAP, l))
    ELSE IF l \in Keys(ObjectPrototype) THEN ValueOf(ObjectPrototype, l)
    ELSE Undefined

\* a test that takes only undefined for falsy
TruthyUnlessUndefined(v) == v.kind # "undefined"

\* ToBoolean: undefined, null and the empty string are falsy
Truthy(v) ==
    CASE v.kind \in {"undefined", "null"} -> FALSE
      [] v.kind = "string" -> v.chars # <<>>
      [] OTHER -> TRUE

\* the characters String.prototype.trim removes, among them space, tab, line feed and
\* the no-break space
WhiteSpace == {" ", "\t", "\n", "U+00A0"}

RECURSIVE trimStart(_)
trimStart(s) == IF s # <<>> /\ Head(s) \in WhiteSpace THEN trimStart(Tail(s)) ELSE s

RECURSIVE trimEnd(_)
trimEnd(s) ==
    IF s # <<>> /\ s[Len(s)] \in WhiteSpace THEN trimEnd(SubSeq(s, 1, Len(s) - 1)) ELSE s

\* a trim that leaves the whitespace at the end
trimLeadingOnly(s) == trimStart(s)

\* String.prototype.trim
trim(s) == trimEnd(trimStart(s))

\* lines 13-17
normalizeLang(lang) ==
    IF ~Truthy(lang) THEN Str(javascript)
    ELSE IF lang.kind # "string" THEN TypeError
    ELSE LET l == trim(toLowerCase(lang.chars))
             v == Lookup(l)
         IN  IF Truthy(v) THEN v ELSE Str(l)

\* String.prototype.toUpperCase on one character
UpperChar(c) ==
    IF c \in Range(LowerSeq)
    THEN UpperSeq[CHOOSE i \in DOMAIN LowerSeq : LowerSeq[i] = c]
    ELSE IF c = "U+00E9" THEN "U+00C9" ELSE c

toUpperCase(s) == [i \in DOMAIN s |-> UpperChar(s[i])]

\* s with its first character in upper case
Capitalize(s) == IF s = <<>> THEN s ELSE <<UpperChar(Head(s))>> \o Tail(s)

python == <<"p", "y", "t", "h", "o", "n">>

\* the words SpecLang builds its language tags from: the aliases, two grammar names,
\* the empty word and the names of inherited properties
LangWords == Keys(LANG_MAP) \cup {javascript, python, <<>>} \cup Keys(ObjectPrototype)

\* the whitespace SpecLang puts around a word
LangPads == {<<>>, <<" ">>, <<"\t", "U+00A0", "\n">>}

\* the tags built from word w: as written, in upper case, capitalized, each padded
LangTags(w) ==
    {l \o c \o r : l \in LangPads, r \in LangPads, c \in {w, toUpperCase(w), Capitalize(w)}}

(* ------------------------- highlightCodeBlocks ------------------------ *)

css == <<"c", "s", "s">>
json == <<"j", "s", "o", "n">>

\* Prism.languages once every grammar of the manifest (lines 25-33) is registered
AllLanguages == {markup, css, javascript, typescript, bash, json, yaml}

\* Prism.languages as highlightCodeBlocks may find it: every grammar registered, none
\* yet, or all but one
LanguageSets == {AllLanguages, {}, AllLanguages \ {javascript}}

LanguagePrefix == <<"l", "a", "n", "g", "u", "a", "g", "e", "-">>

\* String.prototype.startsWith
StartsWith(s, p) == Len(s) >= Len(p) /\ SubSeq(s, 1, Len(p)) = p

\* line 44: the first class of the list that starts with 'language-', or undefined
FindLanguageClass(classList) ==
    LET found == {i \in DOMAIN classList : StartsWith(classList[i], LanguagePrefix)}
    IN  IF found = {} THEN Undefined
        ELSE Str(classList[CHOOSE i \in found : \A j \in found : i <= j])

\* line 45: cls.replace('language-', '') on a class that starts with 'language-'
RemoveLanguagePrefix(c) == SubSeq(c, Len(LanguagePrefix) + 1, Len(c))

\* `${lang}` and the property key Prism.languages[lang] looks up: String(lang)
TemplateString(v) == v.chars

\* the content of a code element as marked.parse emitted it: the escaped raw text
RawContent == [highlighted |-> FALSE, grammar |-> <<>>]

\* a pre > code pair: the class list of the code element, the class of the pre element
\* and what the code element holds
CodeBlock(classList) == [classList |-> classList, preClass |-> <<>>, content |-> RawContent]

\* lines 44-51, on one code element. className is assigned one string; it is kept here
\* as the single entry of the class list
HighlightBlock(b, languages) ==
    LET cls == FindLanguageClass(b.classList)
        lang == normalizeLang(IF Truthy(cls) THEN Str(RemoveLanguagePrefix(cls.chars))
                              ELSE Str(<<>>))
        key == TemplateString(lang)
    IN  [classList |-> <<LanguagePrefix \o key>>,
         preClass |-> LanguagePrefix \o key,
         content |-> IF key \in languages
                     THEN [highlighted |-> TRUE, grammar |-> key]
                     ELSE b.content]

\* lines 42-53: every pre code element of the container
highlightCodeBlocks(blocks, languages) ==
    [i \in DOMAIN blocks |-> HighlightBlock(blocks[i], languages)]

\* the tags of the fenced blocks SpecLang draws its documents from
MarkerWords ==
    {<<>>, <<"j", "s">>, <<"J", "S">>, python, css,
     <<"c", "o", "n", "s", "t", "r", "u", "c", "t", "o", "r">>}

\* the class lists of their code elements: no class, the marker, a class before the marker
CodeClassLists ==
    {<<>>} \cup {<<LanguagePrefix \o w>> : w \in MarkerWords}
           \cup {<<<<"h", "l">>, LanguagePrefix \o <<"s", "h">>>>}

CodeBlocksIn == {CodeBlock(c) : c \in CodeClassLists}

(* --------------------- headings and table of contents ----------------- *)

\* a heading element: its level (1-6), its own text, its id attribute ("" is <<>>)
\* and the href of each docs-anchor link appended to it
Heading(level, text, id) == [level |-> level, text |-> text, id |-> id, anchors |-> <<>>]

\* h.textContent: the heading's text followed by the "#" of every appended anchor
TextContent(h) == h.text \o [i \in DOMAIN h.anchors |-> "#"]

\* lines 79-85, on one heading: the id is set only when it is empty, the anchor is
\* appended always
AnchorHeading(h) ==
    LET id == IF h.id = <<>> THEN slugify(TextContent(h)) ELSE h.id
    IN  [h EXCEPT !.id = id, !.anchors = Append(@, <<"#">> \o id)]

\* addHeadingAnchors: every heading h1-h6 of the subtree, in document order
addHeadingAnchors(hs) == [i \in DOMAIN hs |-> AnchorHeading(hs[i])]

RECURSIVE SelectIdx(_, _, _)
\* the indices i >= from of hs whose level is in levels, in document order
SelectIdx(hs, levels, from) ==
    IF from > Len(hs) THEN <<>>
    ELSE (IF hs[from].level \in levels THEN <<from>> ELSE <<>>)
         \o SelectIdx(hs, levels, from + 1)

\* container.querySelectorAll('h2, h3'), as indices into the subtree's headings
TocHeadings(hs) == SelectIdx(hs, {2, 3}, 1)

NullToc == [built |-> FALSE, entries |-> <<>>]

\* one li of the list (lines 102-113): the heading it was built from, its class, its href
TocEntry(hs, i) ==
    [heading |-> i,
     class |-> IF hs[i].level = 3 THEN "docs-toc-h3" ELSE "",
     href |-> <<"#">> \o hs[i].id]

\* a builder whose threshold is off by one
buildTOCFromTwo(hs) ==
    LET sel == TocHeadings(hs)
    IN  IF Len(sel) < 2 THEN NullToc
        ELSE [built |-> TRUE, entries |-> [k \in DOMAIN sel |-> TocEntry(hs, sel[k])]]

\* lines 89-133: null under three h2/h3 headings, else one entry per heading in order
buildTOC(hs) ==
    LET sel == TocHeadings(hs)
    IN  IF Len(sel) < 3 THEN NullToc
        ELSE [built |-> TRUE, entries |-> [k \in DOMAIN sel |-> TocEntry(hs, sel[k])]]

\* line 109: document.getElementById(id), as the index of the first heading of the
\* document that carries the id, 0 for null
getElementById(hs, id) ==
    LET found == {i \in DOMAIN hs : hs[i].id = id}
    IN  IF id = <<>> \/ found = {} THEN 0
        ELSE CHOOSE i \in found : \A j \in found : i <= j

\* an element of the page outside the content region, as a scroll target
Outside == -1

\* document.getElementById(id) over the whole page: the first element in document order
\* that carries the id, an element before the block if there is one, else a heading of
\* the content region; 0 for null
PageGetElementById(outside, hs, id) ==
    IF id # <<>> /\ id \in outside THEN Outside ELSE getElementById(hs, id)

\* line 123: toc.querySelector(`a[href="#${id}"]`), as the index of the first entry of
\* the table of contents whose link has that href, 0 for null
QuerySelectorHref(t, href) ==
    LET found == {k \in DOMAIN t.entries : t.entries[k].href = href}
    IN  IF found = {} THEN 0 ELSE CHOOSE k \in found : \A j \in found : k <= j

\* a callback that also clears the marks when a heading leaves
HandleEntryClearing(t, hs, act, e) ==
    LET match == QuerySelectorHref(t, <<"#">> \o hs[e.target].id)
    IN  IF e.isIntersecting /\ match # 0 THEN {match} ELSE {}

\* lines 120-125, on one entry of the callback: for an intersecting entry every mark is
\* removed and the matching link, if any, is marked
HandleEntry(t, hs, act, e) ==
    IF e.isIntersecting
    THEN LET match == QuerySelectorHref(t, <<"#">> \o hs[e.target].id)
         IN  IF match = 0 THEN {} ELSE {match}
    ELSE act

RECURSIVE HandleEntries(_, _, _, _)
\* lines 119-126: entries.forEach
HandleEntries(t, hs, act, es) ==
    IF es = <<>> THEN act
    ELSE HandleEntries(t, hs, HandleEntry(t, hs, act, Head(es)), Tail(es))

\* a scroll that marks the entries of its target active
ScrollMarksTarget(t, act, target) == {k \in DOMAIN t.entries : t.entries[k].heading = target}

\* lines 109 and 181: scrollIntoView changes no class of the table of contents
ScrollIntoView(t, act, target) == act

\* a handler that adds a history entry for the fragment
PushState(hist, fragment) == Append(hist, fragment)

\* line 110: window.history.replaceState(null, '', `#${h.id}`): the current entry of
\* the session history gets the URL with that fragment
ReplaceState(hist, fragment) == [hist EXCEPT ![Len(hist)] = fragment]

\* the default action of a click on a link to '#fragment': unless the handler called
\* preventDefault (line 108), the browser navigates and adds a history entry
DefaultAction(prevented, hist, href) ==
    IF prevented THEN hist ELSE Append(hist, Tail(href))

\* the heading texts, levels and pre-assigned ids SpecDoc draws its documents from
HeadingTexts == {<<"A", " ", "b">>, <<"?">>}
HeadingLevels == {1, 2, 3}
HeadingIds == {<<>>, <<"x">>}

HeadingsIn == {Heading(l, t, i) : l \in HeadingLevels, t \in HeadingTexts, i \in HeadingIds}

(* --------------------------- the loader ------------------------------ *)

\* prism.min.js, the engine (line 22)
Engine == "prism"

\* the grammar manifest of loadPrism (lines 25-33), by grammar name
Grammars == {"markup", "css", "javascript", "typescript", "bash", "json", "yaml"}

Modules == {Engine} \cup Grammars

\* block.textContent.trim() at mount: empty, or the identifier of a document
Slugs == {"", "getting-started"}

\* HTTP statuses of a fetch that resolves with resp.ok false
NotOkStatuses == {"404", "500"}

LoadingText == "Loading documentation..."
FailedText == "Failed to load documentation"

\* the text of the loading placeholder: a fixed text and, after it, " (<status>)" or nothing
Message(text, status) == [text |-> text, status |-> status]

\* the content region: nothing, the loading placeholder, or the rendered document with
\* its copy controls, its headings and the table of contents appended to the wrapper
NoContent == [kind |-> "none", copy |-> 0, hs |-> <<>>, toc |-> NullToc]
Placeholder == [kind |-> "placeholder", copy |-> 0, hs |-> <<>>, toc |-> NullToc]

\* the documents marked.parse yields in Spec: their pre blocks and their headings
SampleDocs ==
    {[pres |-> 1, hs |-> <<Heading(1, <<"A">>, <<>>), Heading(2, <<"A", " ", "b">>, <<>>),
                           Heading(3, <<"?">>, <<>>), Heading(2, <<"A", " ", "b">>, <<>>)>>],
     [pres |-> 0, hs |-> <<Heading(2, <<"A">>, <<>>), Heading(3, <<"b">>, <<"x">>)>>]}

VARIABLES
    windowPrism,   \* window.Prism is set (the engine script has been evaluated)
    modState,      \* the module map behind import(): none, fetching, ok, failed
    importCalls,   \* per module, the import() calls loadPrism has issued
    importFails,   \* per module, the import() calls of loadPrism that rejected
    loadFailures,  \* the module fetches that have failed so far
    lp,            \* per mount, where its loadPrism invocation stands
    lpInit,        \* per mount, the import() calls its loadPrism invocation issued
    lpLate,        \* per mount, its loadPrism began after another had returned
    lpOverlap,     \* some loadPrism invocation began while another was in progress
    pc,            \* per mount, where its decorate run stands
    resp,          \* per mount, the state of its fetch and the status it resolved with
    msg,           \* per mount, the text of its loading placeholder
    logged,        \* per mount, the console.error calls of its run
    failedAt,      \* per mount, the step of its run that raised an exception
    content,       \* per mount, what the content region holds
    readyAtRender, \* per mount, whether engine and grammars were loaded when rendering began
    slugIn,        \* SpecSlug: the text handed to slugify
    slugOut,       \* SpecSlug: the id slugify returned for it
    slugDone,      \* SpecSlug: slugify has run
    slugRe,        \* SpecSlug: what slugify returned when called again
    injected,      \* SpecDoc: the headings as marked.parse emitted them
    headings,      \* SpecDoc: the heading elements of the rendered subtree
    toc,           \* SpecDoc: what buildTOC returned
    phase,         \* SpecDoc: the step of the pipeline reached
    runs,          \* SpecDoc: how often addHeadingAnchors ran on the subtree
    history,       \* SpecDoc: the session history, as the URL fragment of each entry
    scrolledTo,    \* SpecDoc: the heading last scrolled into view (0: none)
    tocClicks,     \* SpecDoc: the activations of TOC entries so far
    langWord,      \* SpecLang: the word the raw language tag was built from
    langIn,        \* SpecLang: the raw language tag handed to normalizeLang
    langOut,       \* SpecLang: what normalizeLang returned for it
    langAgain,     \* SpecLang: what normalizeLang returned for that result
    langPhase,     \* SpecLang: drawn, normalized, again
    codeIn,        \* SpecLang: the code blocks as marked.parse emitted them
    codeBlocks,    \* SpecLang: the code blocks of the rendered subtree
    languages,     \* SpecLang: the grammars registered in Prism.languages
    hlDone,        \* SpecLang: highlightCodeBlocks has run
    now,           \* SpecCopy: the page's clock, in seconds
    label,         \* SpecCopy: per block, btn.textContent
    copied,        \* SpecCopy: per block, btn.classList contains 'copied'
    writes,        \* SpecCopy: per block, the pending navigator.clipboard.writeText calls
    timers,        \* SpecCopy: per block, the due times of its pending revert timers
    clicks,        \* SpecCopy: the activations so far
    clipboard,     \* SpecCopy: the block whose text the clipboard holds (0: none)
    unhandled,     \* SpecCopy: the rejections that left a click handler unhandled
    copiedAt,      \* SpecCopy: per block, when 'Copied!' was last shown (-1: never)
    outsideIds,    \* SpecPage: the ids of the page's elements that precede the block
    hashAtMount,   \* SpecPage: the URL fragment when decorate was called
    active,        \* SpecPage: the TOC entries whose link carries the class 'active'
    deepLink,      \* SpecPage: the deep-link timers pending, scheduled and run so far
    obsCalls,      \* SpecPage: the observer callbacks so far
    obsLast,       \* SpecPage: the last callback reported a heading entering, or only leaving
    fragChanges,   \* SpecPage: the changes of the URL fragment from outside so far
    otherRendered, \* SpecPage: another docs-renderer block of the page has rendered
    runAt,         \* SpecRender: per mount, the step its decorate run executes next
    running,       \* SpecRender: the mount whose code is on the call stack (0: none)
    region,        \* SpecRender: per mount, its content region, table of contents and timer
    steps,         \* SpecRender: per mount, the steps its run has completed, in order
    events,        \* SpecRender: the timer, click and observer callbacks run so far
    hasObserver    \* SpecRender: the browser defines IntersectionObserver

loaderVars == <<windowPrism, modState, importCalls, importFails, loadFailures, lp, lpInit, lpLate, lpOverlap>>
mountVars == <<pc, resp, msg, logged, failedAt, content, readyAtRender>>
slugVars == <<slugIn, slugOut, slugDone, slugRe>>
docVars == <<injected, headings, toc, phase, runs, history, scrolledTo, tocClicks>>
langVars == <<langWord, langIn, langOut, langAgain, langPhase, codeIn, codeBlocks, languages, hlDone>>
copyVars == <<now, label, copied, writes, timers, clicks, clipboard, unhandled, copiedAt>>
pageVars == <<outsideIds, hashAtMount, active, deepLink, obsCalls, obsLast, fragChanges, otherRendered>>
runVars == <<runAt, running, region, steps, events, hasObserver>>
restVars == <<pageVars, runVars>>
uiVars == <<langVars, copyVars, restVars>>
vars == <<loaderVars, mountVars, slugVars, docVars, uiVars>>

InitLoader ==
    /\ windowPrism = FALSE
    /\ modState = [x \in Modules |-> "none"]
    /\ importCalls = [x \in Modules |-> 0]
    /\ importFails = [x \in Modules |-> 0]
    /\ loadFailures = 0
    /\ lp = [m \in Mounts |-> "none"]
    /\ lpInit = [m \in Mounts |-> 0]
    /\ lpLate = [m \in Mounts |-> FALSE]
    /\ lpOverlap = FALSE

InitMounts ==
    /\ pc = [m \in Mounts |-> "idle"]
    /\ resp = [m \in Mounts |-> [st |-> "none", status |-> ""]]
    /\ msg = [m \in Mounts |-> Message("", "")]
    /\ logged = [m \in Mounts |-> 0]
    /\ failedAt = [m \in Mounts |-> "none"]
    /\ content = [m \in Mounts |-> NoContent]
    /\ readyAtRender = [m \in Mounts |-> "not rendering"]

\* no further call of slugify yet
NoRe == [done |-> FALSE, second |-> <<>>, ofSlug |-> <<>>]

InitSlugIdle == slugIn = <<>> /\ slugOut = <<>> /\ slugDone = FALSE /\ slugRe = NoRe

\* the session history at page load: one entry, its URL without fragment
InitialHistory == <<<<>>>>

InitNav == history = InitialHistory /\ scrolledTo = 0 /\ tocClicks = 0

InitDocIdle ==
    /\ injected = <<>> /\ headings = <<>> /\ toc = NullToc /\ phase = "none" /\ runs = 0
    /\ InitNav

InitLangIdle ==
    /\ langWord = <<>> /\ langIn = Undefined /\ langOut = Undefined /\ langAgain = Undefined
    /\ langPhase = "none"
    /\ codeIn = <<>> /\ codeBlocks = <<>> /\ languages = {} /\ hlDone = FALSE

\* the pre blocks that carry a Copy control
CopyBlocks == 1..MaxCopyBlocks

\* lines 57-59 and 73: every control starts as 'Copy', unmarked
InitCopy ==
    /\ now = 0
    /\ label = [b \in CopyBlocks |-> "Copy"]
    /\ copied = [b \in CopyBlocks |-> FALSE]
    /\ writes = [b \in CopyBlocks |-> 0]
    /\ timers = [b \in CopyBlocks |-> <<>>]
    /\ clicks = 0
    /\ clipboard = 0
    /\ unhandled = 0
    /\ copiedAt = [b \in CopyBlocks |-> -1]

\* no deep-link timer scheduled yet
NoDeepLink == [pending |-> <<>>, scheduled |-> 0, executed |-> 0]

InitPageIdle ==
    /\ outsideIds = {} /\ hashAtMount = <<>> /\ active = {} /\ deepLink = NoDeepLink
    /\ obsCalls = 0 /\ obsLast = "none" /\ fragChanges = 0 /\ otherRendered = FALSE

\* lines 147-152: the content region holds the loading placeholder and nothing else
MountedRegion ==
    [placeholder |-> "attached", message |-> "loading", parsed |-> <<>>, html |-> FALSE,
     headings |-> <<>>, highlighted |-> FALSE, buttons |-> FALSE,
     toc |-> NullToc, observing |-> FALSE, active |-> {}, timer |-> <<>>]

InitRunIdle ==
    /\ runAt = [m \in Mounts |-> "none"] /\ running = 0
    /\ region = [m \in Mounts |-> MountedRegion]
    /\ steps = [m \in Mounts |-> <<>>]
    /\ events = 0 /\ hasObserver = TRUE

InitRestIdle == InitPageIdle /\ InitRunIdle

InitUiIdle == InitLangIdle /\ InitCopy /\ InitRestIdle

\* import(): a module not yet (or not successfully) fetched starts fetching; a module
\* being fetched or already evaluated is shared
ImportState(st) == IF st \in {"none", "failed"} THEN "fetching" ELSE st

\* the engine is installed and every grammar of the manifest is registered
AllLoaded == windowPrism /\ \A g \in Grammars : modState[g] = "ok"

\* a loader that never takes the early return
PrismGuardNever == FALSE

\* line 20: if (window.Prism)
PrismGuard == windowPrism

InProgress == {"import_engine", "import_grammars"}

\* the mounts whose loadPrism invocation awaits at st
Waiting(st) == {m \in Mounts : lp[m] = st}

\* the Promise.all of line 34 of m's invocation is fulfilled
GrammarsResolved(m) == lp[m] = "import_grammars" /\ \A g \in Grammars : modState[g] = "ok"

\* the Promise.all of line 155 of m's run is rejected
LoadRejected(m) == pc[m] = "await_all" /\ (resp[m].st = "rejected" \/ lp[m] = "threw")

\* the Promise.all of line 155 of m's run is fulfilled
LoadResolved(m) == pc[m] = "await_all" /\ resp[m].st \in {"ok", "notok"} /\ lp[m] = "returned"

\* a continuation of a settled promise is queued: the event loop runs it before it
\* handles the next event (a mount, the end of a fetch)
ContinuationQueued ==
    \E m \in Mounts : GrammarsResolved(m) \/ LoadRejected(m) \/ LoadResolved(m)

\* lines 19-22: loadPrism from its call to its first await (or its early return)
loadPrismCall(m) ==
    /\ lpOverlap' = (lpOverlap \/ \E k \in Mounts : lp[k] \in InProgress)
    /\ lpLate' = [lpLate EXCEPT ![m] = \E k \in Mounts : lp[k] = "returned"]
    /\ IF PrismGuard
       THEN /\ lp' = [lp EXCEPT ![m] = "returned"]
            /\ UNCHANGED <<windowPrism, modState, importCalls, importFails, loadFailures, lpInit>>
       ELSE /\ lp' = [lp EXCEPT ![m] = "import_engine"]
            /\ modState' = [modState EXCEPT ![Engine] = ImportState(@)]
            /\ importCalls' = [importCalls EXCEPT ![Engine] = @ + 1]
            /\ lpInit' = [lpInit EXCEPT ![m] = @ + 1]
            /\ UNCHANGED <<windowPrism, importFails, loadFailures>>

\* the fetch of prism.min.js ends. Evaluated: window.Prism is set and every invocation
\* awaiting the import goes on (lines 23-34: it sets Prism.manual and issues the import()
\* of every grammar at once). Failed: the import() of every invocation awaiting it rejects
\* (line 22 throws).
EngineSettles ==
    /\ ~ContinuationQueued
    /\ modState[Engine] = "fetching"
    /\ \E ok \in BOOLEAN :
        LET waiting == Waiting("import_engine")
        IN  IF ok
            THEN /\ windowPrism' = TRUE
                 /\ modState' = [x \in Modules |->
                        IF x = Engine THEN "ok"
                        ELSE IF waiting # {} THEN ImportState(modState[x]) ELSE modState[x]]
                 /\ importCalls' = [x \in Modules |->
                        IF x \in Grammars THEN importCalls[x] + Cardinality(waiting)
                        ELSE importCalls[x]]
                 /\ lpInit' = [m \in Mounts |->
                        IF m \in waiting THEN lpInit[m] + Cardinality(Grammars) ELSE lpInit[m]]
                 /\ lp' = [m \in Mounts |-> IF m \in waiting THEN "import_grammars" ELSE lp[m]]
                 /\ UNCHANGED <<importFails, loadFailures>>
            ELSE /\ loadFailures < MaxLoadFailures
                 /\ loadFailures' = loadFailures + 1
                 /\ modState' = [modState EXCEPT ![Engine] = "failed"]
                 /\ importFails' = [importFails EXCEPT ![Engine] = @ + Cardinality(waiting)]
                 /\ lp' = [m \in Mounts |-> IF m \in waiting THEN "threw" ELSE lp[m]]
                 /\ UNCHANGED <<windowPrism, importCalls, lpInit>>
    /\ UNCHANGED <<lpLate, lpOverlap>>
    /\ UNCHANGED <<mountVars, slugVars, docVars, uiVars>>

\* the fetch of one grammar ends: registered with the engine, or failed, and then the
\* Promise.all of every invocation awaiting the grammars rejects (line 34 throws)
GrammarSettles(g) ==
    /\ ~ContinuationQueued
    /\ modState[g] = "fetching"
    /\ \E ok \in BOOLEAN :
        IF ok
        THEN /\ modState' = [modState EXCEPT ![g] = "ok"]
             /\ UNCHANGED <<importFails, loadFailures, lp>>
        ELSE /\ loadFailures < MaxLoadFailures
             /\ loadFailures' = loadFailures + 1
             /\ modState' = [modState EXCEPT ![g] = "failed"]
             /\ importFails' = [importFails EXCEPT ![g] = importCalls[g]]
             /\ lp' = [m \in Mounts |-> IF lp[m] = "import_grammars" THEN "threw" ELSE lp[m]]
    /\ UNCHANGED <<windowPrism, importCalls, lpInit, lpLate, lpOverlap>>
    /\ UNCHANGED <<mountVars, slugVars, docVars, uiVars>>

\* lines 34-35: every grammar import resolved, the invocation returns window.Prism
LoadPrismReturns(m) ==
    /\ GrammarsResolved(m)
    /\ lp' = [lp EXCEPT ![m] = "returned"]
    /\ UNCHANGED <<windowPrism, modState, importCalls, importFails, loadFailures, lpInit, lpLate, lpOverlap>>
    /\ UNCHANGED <<mountVars, slugVars, docVars, uiVars>>

(* ------------------------------ decorate ------------------------------ *)

\* lines 135-158: the mount up to its await of Promise.all([fetch, loadPrism()])
Decorate(m) ==
    /\ ~ContinuationQueued
    /\ pc[m] = "idle"
    /\ \E slug \in Slugs :
        IF slug = ""
        THEN /\ pc' = [pc EXCEPT ![m] = "skipped"]
             /\ UNCHANGED <<loaderVars, resp, msg, content>>
        ELSE /\ pc' = [pc EXCEPT ![m] = "await_all"]
             /\ msg' = [msg EXCEPT ![m] = Message(LoadingText, "")]
             /\ content' = [content EXCEPT ![m] = Placeholder]
             /\ resp' = [resp EXCEPT ![m] = [st |-> "pending", status |-> ""]]
             /\ loadPrismCall(m)
    /\ UNCHANGED <<logged, failedAt, readyAtRender>>
    /\ UNCHANGED <<slugVars, docVars, uiVars>>

\* the fetch of the document ends: a response with resp.ok true, a response with a
\* non-success status, or a rejection (network error); a response that arrives after
\* the run has ended is observed by nothing and is left out
FetchSettles(m) ==
    /\ ~ContinuationQueued
    /\ pc[m] = "await_all"
    /\ resp[m].st = "pending"
    /\ \/ resp' = [resp EXCEPT ![m] = [st |-> "ok", status |-> "200"]]
       \/ \E s \in NotOkStatuses : resp' = [resp EXCEPT ![m] = [st |-> "notok", status |-> s]]
       \/ resp' = [resp EXCEPT ![m] = [st |-> "rejected", status |-> ""]]
    /\ UNCHANGED <<pc, msg, logged, failedAt, content, readyAtRender>>
    /\ UNCHANGED <<loaderVars, slugVars, docVars, uiVars>>

\* a handler that rethrows instead of reporting
CatchRethrow(m, step) ==
    /\ pc' = [pc EXCEPT ![m] = "rejected"]
    /\ failedAt' = [failedAt EXCEPT ![m] = step]
    /\ UNCHANGED <<msg, logged>>

\* lines 183-187: the catch clause of decorate
Catch(m, step) ==
    /\ msg' = [msg EXCEPT ![m] = Message(FailedText, "")]
    /\ logged' = [logged EXCEPT ![m] = @ + 1]
    /\ failedAt' = [failedAt EXCEPT ![m] = step]
    /\ pc' = [pc EXCEPT ![m] = "done"]

\* line 155: Promise.all rejects as soon as the fetch or loadPrism rejects
DecorateLoadFails(m) ==
    /\ LoadRejected(m)
    /\ Catch(m, "load")
    /\ UNCHANGED <<resp, content, readyAtRender>>
    /\ UNCHANGED <<loaderVars, slugVars, docVars, uiVars>>

\* a report that leaves the status out
StatusMessageGeneric(status) == Message(FailedText, "")

\* line 161: `Failed to load documentation (${resp.status})`
StatusMessage(status) == Message(FailedText, status)

\* lines 155-165: both settled without rejection; a non-success response is reported
\* and the run returns, else the run awaits resp.text()
DecorateResumes(m) ==
    /\ LoadResolved(m)
    /\ IF resp[m].st = "notok"
       THEN /\ msg' = [msg EXCEPT ![m] = StatusMessage(resp[m].status)]
            /\ pc' = [pc EXCEPT ![m] = "done"]
       ELSE /\ pc' = [pc EXCEPT ![m] = "await_text"]
            /\ UNCHANGED msg
    /\ UNCHANGED <<resp, logged, failedAt, content, readyAtRender>>
    /\ UNCHANGED <<loaderVars, slugVars, docVars, uiVars>>

\* lines 168-175: the HTML replaces the content of the content region, a copy control
\* is attached per pre block, the headings are anchored and the table of contents built
Rendered(d) ==
    LET hs == addHeadingAnchors(d.hs)
    IN  [kind |-> "document", copy |-> d.pres, hs |-> hs, toc |-> buildTOC(hs)]

\* line 165: resp.text() rejects
TextFails(m) ==
    /\ ~ContinuationQueued
    /\ pc[m] = "await_text"
    /\ Catch(m, "text")
    /\ UNCHANGED <<resp, content, readyAtRender>>
    /\ UNCHANGED <<loaderVars, slugVars, docVars, uiVars>>

\* lines 165-166: resp.text() resolved and marked.parse throws
MarkedThrows(m) ==
    /\ ~ContinuationQueued
    /\ pc[m] = "await_text"
    /\ readyAtRender' = [readyAtRender EXCEPT ![m] = IF AllLoaded THEN "ready" ELSE "half ready"]
    /\ Catch(m, "marked")
    /\ UNCHANGED <<resp, content>>
    /\ UNCHANGED <<loaderVars, slugVars, docVars, uiVars>>

\* lines 165-182: resp.text() resolved, the document is converted, injected and augmented
Render(m) ==
    /\ ~ContinuationQueued
    /\ pc[m] = "await_text"
    /\ readyAtRender' = [readyAtRender EXCEPT ![m] = IF AllLoaded THEN "ready" ELSE "half ready"]
    /\ \E d \in SampleDocs : content' = [content EXCEPT ![m] = Rendered(d)]
    /\ pc' = [pc EXCEPT ![m] = "done"]
    /\ UNCHANGED <<resp, msg, logged, failedAt>>
    /\ UNCHANGED <<loaderVars, slugVars, docVars, uiVars>>

Init == InitLoader /\ InitMounts /\ InitSlugIdle /\ InitDocIdle /\ InitUiIdle

Next ==
    \/ \E m \in Mounts : Decorate(m)
    \/ EngineSettles
    \/ \E g \in Grammars : GrammarSettles(g)
    \/ \E m \in Mounts : LoadPrismReturns(m)
    \/ \E m \in Mounts : FetchSettles(m)
    \/ \E m \in Mounts : DecorateLoadFails(m)
    \/ \E m \in Mounts : DecorateResumes(m)
    \/ \E m \in Mounts : TextFails(m)
    \/ \E m \in Mounts : MarkedThrows(m)
    \/ \E m \in Mounts : Render(m)

Spec == Init /\ [][Next]_vars

(* --------------------- SpecSlug: slugify on bounded texts -------------- *)

InitSlug ==
    /\ slugIn \in SeqsUpTo(SlugChars, MaxLen)
    /\ slugOut = <<>>
    /\ slugDone = FALSE
    /\ slugRe = NoRe
    /\ InitLoader /\ InitMounts /\ InitDocIdle /\ InitUiIdle

\* line 79: h.id = slugify(h.textContent), on the text drawn
Slugify ==
    /\ ~slugDone
    /\ slugOut' = slugify(slugIn)
    /\ slugDone' = TRUE
    /\ UNCHANGED <<slugIn, slugRe, loaderVars, mountVars, docVars, uiVars>>

\* slugify called once more on the same text, and on the id it returned for it
SlugifyAgain ==
    /\ slugDone /\ ~slugRe.done
    /\ slugRe' = [done |-> TRUE, second |-> slugify(slugIn), ofSlug |-> slugify(slugOut)]
    /\ UNCHANGED <<slugIn, slugOut, slugDone, loaderVars, mountVars, docVars, uiVars>>

NextSlug == Slugify \/ SlugifyAgain

SpecSlug == InitSlug /\ [][NextSlug]_vars

(* ------- SpecDoc: heading augmentation and TOC on bounded documents ---- *)

InitDoc ==
    /\ injected \in SeqsUpTo(HeadingsIn, MaxHeadings)
    /\ headings = injected
    /\ toc = NullToc
    /\ phase = "injected"
    /\ runs = 0
    /\ InitNav
    /\ InitLoader /\ InitMounts /\ InitSlugIdle /\ InitUiIdle

\* line 172, and any later run of addHeadingAnchors on the same subtree
AddHeadingAnchors ==
    /\ phase \in {"injected", "anchored"}
    /\ runs < MaxRuns
    /\ headings' = addHeadingAnchors(headings)
    /\ runs' = runs + 1
    /\ phase' = "anchored"
    /\ UNCHANGED <<injected, toc, history, scrolledTo, tocClicks>>
    /\ UNCHANGED <<loaderVars, mountVars, slugVars, uiVars>>

\* line 174: buildTOC on the anchored subtree
BuildTOC ==
    /\ phase = "anchored"
    /\ toc' = buildTOC(headings)
    /\ phase' = "toc"
    /\ UNCHANGED <<injected, headings, runs, history, scrolledTo, tocClicks>>
    /\ UNCHANGED <<loaderVars, mountVars, slugVars, uiVars>>

\* line 107: a click on the k-th entry of the table of contents
TocClick(k) ==
    /\ phase = "toc" /\ toc.built
    /\ tocClicks < MaxTocClicks
    /\ tocClicks' = tocClicks + 1
    /\ LET h == headings[toc.entries[k].heading]
           target == PageGetElementById(outsideIds, headings, h.id)
       IN  /\ scrolledTo' = IF target = 0 THEN scrolledTo ELSE target
           /\ history' = DefaultAction(TRUE, ReplaceState(history, h.id), toc.entries[k].href)
    /\ UNCHANGED <<injected, headings, toc, phase, runs>>
    /\ UNCHANGED <<loaderVars, mountVars, slugVars, uiVars>>

NextDoc ==
    \/ AddHeadingAnchors
    \/ BuildTOC
    \/ \E k \in DOMAIN toc.entries : TocClick(k)

SpecDoc == InitDoc /\ [][NextDoc]_vars

(* ---- SpecLang: normalizeLang and highlightCodeBlocks on bounded inputs ---- *)

\* the raw tags: a padded word in some letter case, or no tag at all
LangInputs(w) == {Str(t) : t \in LangTags(w)} \cup (IF w = <<>> THEN {Undefined, Null} ELSE {})

\* either a raw tag is drawn, or a document of code blocks with the state of Prism.languages
InitLang ==
    /\ \/ /\ langWord \in LangWords
          /\ langIn \in LangInputs(langWord)
          /\ codeIn = <<>>
          /\ languages = AllLanguages
       \/ /\ langWord = <<>>
          /\ langIn = Undefined
          /\ codeIn \in SeqsUpTo(CodeBlocksIn, MaxCodeBlocks)
          /\ languages \in LanguageSets
    /\ langOut = Undefined /\ langAgain = Undefined
    /\ langPhase = "drawn"
    /\ codeBlocks = codeIn
    /\ hlDone = FALSE
    /\ InitLoader /\ InitMounts /\ InitSlugIdle /\ InitDocIdle /\ InitCopy /\ InitRestIdle

\* lines 13-17 on the tag drawn
NormalizeLang ==
    /\ langPhase = "drawn"
    /\ langOut' = normalizeLang(langIn)
    /\ langPhase' = "normalized"
    /\ UNCHANGED <<langWord, langIn, langAgain, codeIn, codeBlocks, languages, hlDone>>
    /\ UNCHANGED <<loaderVars, mountVars, slugVars, docVars, copyVars, restVars>>

\* lines 13-17 on the value normalizeLang returned
NormalizeLangAgain ==
    /\ langPhase = "normalized"
    /\ langAgain' = normalizeLang(langOut)
    /\ langPhase' = "again"
    /\ UNCHANGED <<langWord, langIn, langOut, codeIn, codeBlocks, languages, hlDone>>
    /\ UNCHANGED <<loaderVars, mountVars, slugVars, docVars, copyVars, restVars>>

\* line 170: highlightCodeBlocks(content, Prism)
HighlightCodeBlocks ==
    /\ ~hlDone
    /\ codeBlocks' = highlightCodeBlocks(codeBlocks, languages)
    /\ hlDone' = TRUE
    /\ UNCHANGED <<langWord, langIn, langOut, langAgain, langPhase, codeIn, languages>>
    /\ UNCHANGED <<loaderVars, mountVars, slugVars, docVars, copyVars, restVars>>

NextLang == NormalizeLang \/ NormalizeLangAgain \/ HighlightCodeBlocks

SpecLang == InitLang /\ [][NextLang]_vars

(* ------------- SpecCopy: the Copy controls of addCopyButtons ----------- *)

\* line 69: the delay of the revert timer, 2000 ms, in seconds
CopyWindow == 2

\* a handler that sets the label of every control
CopiedLabelAll(b) == [c \in CopyBlocks |-> "Copied!"]

\* line 64: btn.textContent = 'Copied!', on the control of block b
CopiedLabel(b) == [label EXCEPT ![b] = "Copied!"]

\* lines 61-63: the click handler up to its await of navigator.clipboard.writeText
Click(b) ==
    /\ clicks < MaxClicks
    /\ clicks' = clicks + 1
    /\ writes' = [writes EXCEPT ![b] = @ + 1]
    /\ UNCHANGED <<now, label, copied, timers, clipboard, unhandled, copiedAt>>
    /\ UNCHANGED <<loaderVars, mountVars, slugVars, docVars, langVars, restVars>>

\* lines 63-69: a write of block b resolves and its handler goes on: label, mark, timer
WriteResolves(b) ==
    /\ writes[b] > 0
    /\ writes' = [writes EXCEPT ![b] = @ - 1]
    /\ clipboard' = b
    /\ label' = CopiedLabel(b)
    /\ copied' = [copied EXCEPT ![b] = TRUE]
    /\ timers' = [timers EXCEPT ![b] = Append(@, now + CopyWindow)]
    /\ copiedAt' = [copiedAt EXCEPT ![b] = now]
    /\ UNCHANGED <<now, clicks, unhandled>>
    /\ UNCHANGED <<loaderVars, mountVars, slugVars, docVars, langVars, restVars>>

\* line 63: a write of block b rejects; the await throws inside the async handler, which
\* has no try/catch, so the promise the handler returned rejects and nothing handles it
WriteRejects(b) ==
    /\ writes[b] > 0
    /\ writes' = [writes EXCEPT ![b] = @ - 1]
    /\ unhandled' = unhandled + 1
    /\ UNCHANGED <<now, label, copied, timers, clicks, clipboard, copiedAt>>
    /\ UNCHANGED <<loaderVars, mountVars, slugVars, docVars, langVars, restVars>>

\* lines 66-69: the earliest revert timer of block b is due and runs
TimerFires(b) ==
    /\ timers[b] # <<>> /\ Head(timers[b]) <= now
    /\ timers' = [timers EXCEPT ![b] = Tail(@)]
    /\ label' = [label EXCEPT ![b] = "Copy"]
    /\ copied' = [copied EXCEPT ![b] = FALSE]
    /\ UNCHANGED <<now, writes, clicks, clipboard, unhandled, copiedAt>>
    /\ UNCHANGED <<loaderVars, mountVars, slugVars, docVars, langVars, restVars>>

\* a second passes; a timer that is due runs first
Tick ==
    /\ now < MaxTime
    /\ \A b \in CopyBlocks : \A i \in DOMAIN timers[b] : timers[b][i] > now
    /\ now' = now + 1
    /\ UNCHANGED <<label, copied, writes, timers, clicks, clipboard, unhandled, copiedAt>>
    /\ UNCHANGED <<loaderVars, mountVars, slugVars, docVars, langVars, restVars>>

NextCopy ==
    \/ \E b \in CopyBlocks : Click(b)
    \/ \E b \in CopyBlocks : WriteResolves(b)
    \/ \E b \in CopyBlocks : WriteRejects(b)
    \/ \E b \in CopyBlocks : TimerFires(b)
    \/ Tick

\* the page once addCopyButtons has attached the controls
InitCopyPage == InitLoader /\ InitMounts /\ InitSlugIdle /\ InitDocIdle /\ InitUiIdle

SpecCopy == InitCopyPage /\ [][NextCopy]_vars

(* ---- SpecPage: the rendered page, its observer and its deep-link scroll ---- *)

\* the documents SpecPage renders: one with a repeated heading text and a text without
\* word characters, one whose ids are all distinct, one too short for a table of contents
PageDocs ==
    {<<Heading(2, <<"A", " ", "b">>, <<>>), Heading(3, <<"?">>, <<>>),
       Heading(2, <<"A", " ", "b">>, <<>>)>>,
     <<Heading(2, <<"A">>, <<>>), Heading(2, <<"b">>, <<"x">>),
       Heading(3, <<"A", " ", "b">>, <<>>)>>,
     <<Heading(1, <<"A", " ", "b">>, <<>>), Heading(2, <<"A">>, <<>>)>>}

\* the URL fragments of SpecPage: none, the id of a heading, an id no element carries
PageHashes == {<<>>, <<"a", "-", "b">>, <<"x">>, <<"z">>}

\* the ids carried by elements of the page that precede the block
OutsideIdSets == {{}, {<<"a", "-", "b">>}}

\* window.location.hash without its '#': the fragment of the current history entry
LocationHash == history[Len(history)]

\* the block is mounted (lines 136-152) and its run awaits its inputs
InitPage ==
    /\ injected \in PageDocs
    /\ headings = injected
    /\ toc = NullToc
    /\ phase = "mounted"
    /\ runs = 0
    /\ \E f \in PageHashes : history = <<f>> /\ hashAtMount = f
    /\ scrolledTo = 0 /\ tocClicks = 0
    /\ outsideIds \in OutsideIdSets
    /\ active = {}
    /\ deepLink = NoDeepLink
    /\ obsCalls = 0 /\ obsLast = "none" /\ fragChanges = 0 /\ otherRendered = FALSE
    /\ InitLoader /\ InitMounts /\ InitSlugIdle /\ InitLangIdle /\ InitCopy /\ InitRunIdle

\* lines 177-182 on the page as it is: a timer is scheduled when the URL has a fragment
\* and document.getElementById finds an element for it
ScheduleDeepLink(dl, run, outside, hs, hash) ==
    LET target == PageGetElementById(outside, hs, hash)
    IN  IF hash # <<>> /\ target # 0
        THEN [dl EXCEPT !.pending = Append(@, [run |-> run, target |-> target]),
                        !.scheduled = @ + 1]
        ELSE dl

\* lines 168-182: the document is injected, its headings are anchored, the table of
\* contents is built with its observer, the deep-link scroll is scheduled
RenderPage ==
    /\ phase = "mounted"
    /\ LET hs == addHeadingAnchors(headings)
       IN  /\ headings' = hs
           /\ toc' = buildTOC(hs)
           /\ deepLink' = ScheduleDeepLink(deepLink, "this", outsideIds, hs, LocationHash)
    /\ runs' = runs + 1
    /\ phase' = "toc"
    /\ UNCHANGED <<injected, history, scrolledTo, tocClicks>>
    /\ UNCHANGED <<outsideIds, hashAtMount, active, obsCalls, obsLast, fragChanges, otherRendered>>
    /\ UNCHANGED <<loaderVars, mountVars, slugVars, langVars, copyVars, runVars>>

\* the entries a callback may report: a tracked heading, entering or leaving
ObserverEntries ==
    {[target |-> toc.entries[k].heading, isIntersecting |-> b] :
        k \in DOMAIN toc.entries, b \in BOOLEAN}

\* the batches of entries of one callback
ObserverBatches == SeqsUpTo(ObserverEntries, MaxBatch) \ {<<>>}

\* lines 119-127: the observer's callback with the batch es
ObserverCallback(es) ==
    /\ phase = "toc" /\ toc.built
    /\ obsCalls < MaxObserverCalls
    /\ obsCalls' = obsCalls + 1
    /\ active' = HandleEntries(toc, headings, active, es)
    /\ obsLast' = IF \E i \in DOMAIN es : es[i].isIntersecting THEN "entered" ELSE "left"
    /\ UNCHANGED <<outsideIds, hashAtMount, deepLink, fragChanges, otherRendered>>
    /\ UNCHANGED <<loaderVars, mountVars, slugVars, docVars, langVars, copyVars, runVars>>

\* line 181: a deep-link timer runs and scrolls its target into view
DeepLinkFires ==
    /\ deepLink.pending # <<>>
    /\ scrolledTo' = Head(deepLink.pending).target
    /\ active' = ScrollIntoView(toc, active, Head(deepLink.pending).target)
    /\ deepLink' = [deepLink EXCEPT !.pending = Tail(@), !.executed = @ + 1]
    /\ UNCHANGED <<injected, headings, toc, phase, runs, history, tocClicks>>
    /\ UNCHANGED <<outsideIds, hashAtMount, obsCalls, obsLast, fragChanges, otherRendered>>
    /\ UNCHANGED <<loaderVars, mountVars, slugVars, langVars, copyVars, runVars>>

\* the URL fragment changes from outside the block (the reader follows a link to another
\* fragment): a history entry is added; the block listens to no such event
FragmentChanges ==
    /\ fragChanges < MaxFragmentChanges
    /\ fragChanges' = fragChanges + 1
    /\ \E f \in PageHashes \ {LocationHash} : history' = Append(history, f)
    /\ UNCHANGED <<injected, headings, toc, phase, runs, scrolledTo, tocClicks>>
    /\ UNCHANGED <<outsideIds, hashAtMount, active, deepLink, obsCalls, obsLast, otherRendered>>
    /\ UNCHANGED <<loaderVars, mountVars, slugVars, langVars, copyVars, runVars>>

\* another docs-renderer block of the same page reaches lines 177-182 of its own run;
\* the headings of this block are in the page once it has rendered
OtherBlockRenders ==
    /\ ~otherRendered
    /\ otherRendered' = TRUE
    /\ deepLink' = ScheduleDeepLink(deepLink, "other", outsideIds,
                                    IF phase = "toc" THEN headings ELSE <<>>, LocationHash)
    /\ UNCHANGED <<outsideIds, hashAtMount, active, obsCalls, obsLast, fragChanges>>
    /\ UNCHANGED <<loaderVars, mountVars, slugVars, docVars, langVars, copyVars, runVars>>

NextPage ==
    \/ RenderPage
    \/ \E es \in ObserverBatches : ObserverCallback(es)
    \/ \E k \in DOMAIN toc.entries : TocClick(k)
    \/ DeepLinkFires
    \/ FragmentChanges
    \/ OtherBlockRenders

SpecPage == InitPage /\ [][NextPage]_vars

(* ---------- SpecRender: the steps of the decorate runs of a page ---------- *)

\* the steps of a run from line 155 on, in the order of the source: the awaited inputs
\* (155-165), marked.parse (165-166), the injection (168), highlightCodeBlocks (170),
\* addCopyButtons (171), addHeadingAnchors (172), buildTOC (174-175), the deep link (177-182)
RenderOrder ==
    <<"inputs", "convert", "inject", "highlight", "copy", "anchors", "toc", "deeplink">>

\* the step that follows st in the sequence order, "done" after the last one
NextIn(order, st) ==
    LET i == CHOOSE j \in DOMAIN order : order[j] = st
    IN  IF i = Len(order) THEN "done" ELSE order[i + 1]

\* a run that builds the table of contents before it anchors the headings
StepAfterTocFirst(st) ==
    NextIn(<<"inputs", "convert", "inject", "highlight", "copy", "toc", "anchors", "deeplink">>, st)

\* lines 155-182: the statement that follows step st
StepAfter(st) == NextIn(RenderOrder, st)

\* a run with one more await, after the injection
SuspendsAfterInject(st) == st \in {"inputs", "inject"}

\* the steps that end at an await: the only one from line 160 on is line 165,
\* `await resp.text()`; lines 166-182 contain none
Suspends(st) == st = "inputs"

\* the steps between the first change of the rendered document and the end of the run
InPhase == {"inject", "highlight", "copy", "anchors", "toc", "deeplink"}

\* line 178 over the whole page: the first heading, in the order of the blocks, that
\* carries the id, as <<mount, heading>>; <<>> for null
PageTarget(reg, id) ==
    LET ms == {m \in Mounts : getElementById(reg[m].headings, id) # 0}
    IN  IF ms = {} THEN <<>>
        ELSE LET m == CHOOSE x \in ms : \A y \in ms : x <= y
             IN  <<m, getElementById(reg[m].headings, id)>>

\* every block is mounted (lines 136-152) and its run awaits its inputs (line 155)
InitRender ==
    /\ runAt = [m \in Mounts |-> "inputs"]
    /\ running = 0
    /\ region = [m \in Mounts |-> MountedRegion]
    /\ steps = [m \in Mounts |-> <<>>]
    /\ events = 0
    /\ hasObserver \in BOOLEAN
    /\ injected = <<>> /\ headings = <<>> /\ toc = NullToc /\ phase = "none" /\ runs = 0
    /\ history \in {<<<<>>>>, <<<<"a", "-", "b">>>>}
    /\ scrolledTo = 0 /\ tocClicks = 0
    /\ InitLoader /\ InitMounts /\ InitSlugIdle /\ InitLangIdle /\ InitCopy /\ InitPageIdle

\* the code of mount m's run is on the call stack, or the stack is empty and the event
\* loop resumes the run at step st
Turn(m, st) == runAt[m] = st /\ running \in {0, m}

\* step st of mount m's run completed and left the content region as reg
Advance(m, st, reg) ==
    /\ region' = [region EXCEPT ![m] = reg]
    /\ runAt' = [runAt EXCEPT ![m] = StepAfter(st)]
    /\ steps' = [steps EXCEPT ![m] = Append(@, st)]
    /\ running' = IF Suspends(st) \/ StepAfter(st) = "done" THEN 0 ELSE m

\* lines 183-187: the step raised an exception, the catch clause writes the message to
\* the placeholder element and the run ends
RenderCatch(m) ==
    /\ region' = [region EXCEPT ![m].message = "failed"]
    /\ runAt' = [runAt EXCEPT ![m] = "failed"]
    /\ running' = 0
    /\ UNCHANGED steps

RenderFrame ==
    /\ UNCHANGED <<events, hasObserver>>
    /\ UNCHANGED <<loaderVars, mountVars, slugVars, docVars, langVars, copyVars, pageVars>>

\* lines 155-165: Promise.all settles; a rejection goes to the catch clause, a response
\* that is not ok writes its status and returns, else resp.text() is awaited
InputsSettle(m) ==
    /\ Turn(m, "inputs")
    /\ \E r \in {"ok", "not ok", "rejected"} :
        CASE r = "ok" -> Advance(m, "inputs", region[m])
          [] r = "not ok" ->
                /\ region' = [region EXCEPT ![m].message = "status"]
                /\ runAt' = [runAt EXCEPT ![m] = "returned"]
                /\ running' = 0
                /\ UNCHANGED steps
          [] OTHER -> RenderCatch(m)
    /\ RenderFrame

\* lines 165-166: resp.text() settles and marked.parse converts the text; the rejection
\* of the one and an exception of the other go to the catch clause
Convert(m) ==
    /\ Turn(m, "convert")
    /\ \/ \E d \in PageDocs : Advance(m, "convert", [region[m] EXCEPT !.parsed = d])
       \/ RenderCatch(m)
    /\ RenderFrame

\* line 168: content.innerHTML = html replaces the children of the content region, the
\* placeholder among them
Inject(m) ==
    /\ Turn(m, "inject")
    /\ Advance(m, "inject", [region[m] EXCEPT !.placeholder = "detached", !.html = TRUE,
                                               !.headings = region[m].parsed])
    /\ RenderFrame

\* line 170: highlightCodeBlocks; an exception of Prism.highlight goes to the catch clause
Highlight(m) ==
    /\ Turn(m, "highlight")
    /\ \/ Advance(m, "highlight", [region[m] EXCEPT !.highlighted = TRUE])
       \/ RenderCatch(m)
    /\ RenderFrame

\* line 171: addCopyButtons
Copy(m) ==
    /\ Turn(m, "copy")
    /\ Advance(m, "copy", [region[m] EXCEPT !.buttons = TRUE])
    /\ RenderFrame

\* line 172: addHeadingAnchors
Anchors(m) ==
    /\ Turn(m, "anchors")
    /\ Advance(m, "anchors", [region[m] EXCEPT !.headings = addHeadingAnchors(@)])
    /\ RenderFrame

\* lines 174-175: buildTOC and the appending of its result; with three headings or more
\* line 118 constructs an IntersectionObserver, a ReferenceError where the browser
\* defines none
Toc(m) ==
    /\ Turn(m, "toc")
    /\ LET t == buildTOC(region[m].headings)
       IN  IF t.built /\ ~hasObserver
           THEN RenderCatch(m)
           ELSE Advance(m, "toc", [region[m] EXCEPT !.toc = t, !.observing = t.built])
    /\ RenderFrame

\* lines 177-182: the timer is scheduled when the URL has a fragment and the page an
\* element with that id
DeepLink(m) ==
    /\ Turn(m, "deeplink")
    /\ Advance(m, "deeplink",
               [region[m] EXCEPT !.timer = IF LocationHash = <<>> THEN <<>>
                                           ELSE PageTarget(region, LocationHash)])
    /\ RenderFrame

\* a task of the event loop begins: no code is on the call stack
TaskBegins ==
    /\ running = 0
    /\ events < MaxEvents
    /\ events' = events + 1
    /\ UNCHANGED <<runAt, running, steps, hasObserver>>
    /\ UNCHANGED <<loaderVars, mountVars, slugVars, langVars, copyVars, pageVars>>
    /\ UNCHANGED <<injected, headings, toc, phase, runs, tocClicks>>

\* line 181: the deep-link timer of mount m's run scrolls its target into view
RenderTimerFires(m) ==
    /\ TaskBegins
    /\ region[m].timer # <<>>
    /\ scrolledTo' = region[m].timer[2]
    /\ region' = [region EXCEPT ![m].timer = <<>>]
    /\ UNCHANGED history

\* lines 107-111: the k-th entry of mount m's table of contents is activated
RenderTocActivated(m, k) ==
    /\ TaskBegins
    /\ region[m].toc.built
    /\ history' = ReplaceState(history, region[m].headings[region[m].toc.entries[k].heading].id)
    /\ UNCHANGED <<region, scrolledTo>>

\* lines 119-126: the observer of mount m's table of contents reports the entry e
RenderObserverCallback(m, e) ==
    /\ TaskBegins
    /\ region[m].observing
    /\ region' = [region EXCEPT ![m].active =
                      HandleEntry(region[m].toc, region[m].headings, @, e)]
    /\ UNCHANGED <<history, scrolledTo>>

\* the entries the observer of mount m may report
RenderObserverEntries(m) ==
    {[target |-> region[m].toc.entries[k].heading, isIntersecting |-> b] :
        k \in DOMAIN region[m].toc.entries, b \in BOOLEAN}

NextRender ==
    \E m \in Mounts :
        \/ InputsSettle(m)
        \/ Convert(m)
        \/ Inject(m)
        \/ Highlight(m)
        \/ Copy(m)
        \/ Anchors(m)
        \/ Toc(m)
        \/ DeepLink(m)
        \/ RenderTimerFires(m)
        \/ \E k \in DOMAIN region[m].toc.entries : RenderTocActivated(m, k)
        \/ \E e \in RenderObserverEntries(m) : RenderObserverCallback(m, e)

SpecRender == InitRender /\ [][NextRender]_vars

(* ------------------------------- claims ------------------------------- *)

\* C1: no mount starts converting, injecting or highlighting before the engine and all
\* seven grammars have finished loading, in every interleaving of the mounts; stated for
\* the mounts that went on to inject and highlight their document.
C1_RenderOnlyWhenLoaded ==
    \A m \in Mounts : content[m].kind = "document" => readyAtRender[m] = "ready"

C3_InitiatedAtMostOnce == \A x \in Modules : importCalls[x] <= 1

\* C4: whenever an invocation of loadPrism has returned, the engine and all seven
\* grammars are loaded, whatever the earlier invocations did.
C4_ReturnedImpliesAllLoaded ==
    \A m \in Mounts : lp[m] = "returned" => AllLoaded

\* C5 as claimed: a run whose fetch resolved with a non-success status ends showing the
\* message with that status, with nothing injected and nothing raised, for every outcome
\* of the highlighter load.
C5_StatusMessageAlways ==
    \A m \in Mounts :
        (pc[m] \in {"done", "rejected"} /\ resp[m].st = "notok")
        => /\ pc[m] = "done"
           /\ msg[m] = Message(FailedText, resp[m].status)
           /\ content[m] = Placeholder
           /\ logged[m] = 0 /\ failedAt[m] = "none"

\* C5 as amended: such a run ends with nothing injected and nothing propagated; it shows
\* the message with the status when its loadPrism returned, and the generic message,
\* logged once, when its loadPrism threw.
C5_StatusMessageUnlessLoadFails ==
    \A m \in Mounts :
        (pc[m] \in {"done", "rejected"} /\ resp[m].st = "notok")
        => /\ pc[m] = "done"
           /\ content[m] = Placeholder
           /\ lp[m] \in {"returned", "threw"}
           /\ lp[m] = "returned" =>
                (msg[m] = Message(FailedText, resp[m].status) /\ logged[m] = 0)
           /\ lp[m] = "threw" =>
                (msg[m] = Message(FailedText, "") /\ logged[m] = 1)

\* C5 witness: one run ended on a 404 with the highlighter loaded, another on a
\* non-success status with the highlighter load failed.
C5_Witness ==
    \E m, k \in Mounts :
        /\ pc[m] = "done" /\ resp[m] = [st |-> "notok", status |-> "404"] /\ lp[m] = "returned"
        /\ pc[k] = "done" /\ resp[k].st = "notok" /\ lp[k] = "threw"

\* C6: a run whose fetch rejected, whose loadPrism threw (the engine or a grammar failed
\* to load), whose resp.text() rejected or whose conversion threw ends normally with the
\* generic message in the placeholder, one console.error and no document rendered.
C6_FailureIsReported ==
    \A m \in Mounts :
        (/\ pc[m] \in {"done", "rejected"}
         /\ \/ resp[m].st = "rejected"
            \/ lp[m] = "threw"
            \/ failedAt[m] \in {"text", "marked"})
        => /\ pc[m] = "done"
           /\ msg[m] = Message(FailedText, "")
           /\ logged[m] = 1
           /\ content[m] = Placeholder

\* C6 witness: one run ended because a grammar failed to load, another because the
\* conversion threw.
C6_Witness ==
    \E m, k \in Mounts :
        /\ pc[m] = "done" /\ lp[m] = "threw" /\ \E g \in Grammars : modState[g] = "failed"
        /\ pc[k] = "done" /\ failedAt[k] = "marked"

\* the h2 and h3 headings among the first j headings of the subtree
TrackedUpTo(j) == {i \in 1..j : headings[i].level \in {2, 3}}

\* C7: with fewer than three h2/h3 headings buildTOC yields no table of contents; with
\* n >= 3 it yields n entries, the k-th built from the k-th h2/h3 heading in document order.
C7_TocThreshold ==
    phase = "toc" =>
        LET n == Cardinality(TrackedUpTo(Len(headings)))
        IN  /\ n < 3 => toc = NullToc
            /\ n >= 3 =>
                /\ toc.built
                /\ Len(toc.entries) = n
                /\ \A k \in 1..n :
                    LET j == toc.entries[k].heading
                    IN  j \in TrackedUpTo(Len(headings)) /\ Cardinality(TrackedUpTo(j)) = k

\* C7 witness: a table of contents of three entries was built from a document whose
\* headings are an h2, an h3 and an h2.
C7_Witness ==
    /\ phase = "toc" /\ toc.built /\ Len(toc.entries) = 3
    /\ headings[1].level = 2 /\ headings[2].level = 3 /\ headings[3].level = 2
    /\ toc.entries[2].class = "docs-toc-h3"

\* C8: after heading augmentation the ids of the headings are pairwise distinct; stated
\* for the headings the document gave no id and the augmenter gave a non-empty one.
C8_DistinctIds ==
    phase = "anchored" =>
        \A i, j \in DOMAIN headings :
            (i # j /\ injected[i].id = <<>> /\ injected[j].id = <<>> /\ headings[i].id # <<>>)
            => headings[i].id # headings[j].id

\* C9: a further run of addHeadingAnchors on an augmented subtree leaves every id as it
\* was and every heading with exactly one anchor link.
C9_RerunIdempotent ==
    [][(runs >= 1 /\ runs' = runs + 1)
       => \A i \in DOMAIN headings :
            /\ headings'[i].id = headings[i].id
            /\ Len(headings'[i].anchors) = 1]_vars

\* the characters that are upper-case letters
IsUpper(c) == c \in Range(UpperSeq) \cup {"U+00C9"}

\* C10: the id slugify returns neither starts nor ends with a hyphen, holds only word
\* characters and hyphens, holds no upper-case letter and no two adjacent hyphens.
C10_SlugShape ==
    slugDone =>
        /\ slugOut # <<>> => (slugOut[1] # "-" /\ slugOut[Len(slugOut)] # "-")
        /\ \A i \in DOMAIN slugOut : IsWord(slugOut[i]) \/ slugOut[i] = "-"
        /\ \A i \in DOMAIN slugOut : ~IsUpper(slugOut[i])
        /\ \A i \in 1..(Len(slugOut) - 1) : ~(slugOut[i] = "-" /\ slugOut[i + 1] = "-")

\* C10 witness: a text with an upper-case letter, a run of non-word characters inside and
\* a hyphen at the start was slugified.
C10_Witness ==
    /\ slugDone
    /\ slugIn = <<"-", "A", " ", "?">>
    /\ slugOut = <<"a">>

\* C11: a second call of slugify on the same text returns the same id, and slugify of
\* the id it returned is that id.
C11_SlugifyIdempotent ==
    slugRe.done => (slugRe.second = slugOut /\ slugRe.ofSlug = slugOut)

\* C11 witness: a text with upper case, runs of non-word characters and outer hyphens
\* was slugified, and its non-empty id was slugified again.
C11_Witness ==
    /\ slugRe.done
    /\ slugIn = <<"?", "A", " ", "-">>
    /\ slugOut = <<"a">>
    /\ slugRe.ofSlug = <<"a">>

\* the alias table as the contract states it: alias and canonical grammar name
ClaimedAliases ==
    {<<<<"j", "s">>, javascript>>, <<<<"t", "s">>, typescript>>,
     <<<<"h", "t", "m", "l">>, markup>>, <<<<"x", "m", "l">>, markup>>,
     <<<<"s", "h">>, bash>>, <<<<"s", "h", "e", "l", "l">>, bash>>,
     <<<<"y", "m", "l">>, yaml>>}

\* C12: for a tag built from an alias, in any letter case and with any whitespace around
\* it, normalizeLang returns the alias's canonical grammar name, and normalizing that
\* result again returns the same name.
C12_AliasesNormalize ==
    (langPhase \in {"normalized", "again"} /\ langWord \in Keys(ClaimedAliases))
    => /\ langOut = Str(ValueOf(ClaimedAliases, langWord))
       /\ langPhase = "again" => langAgain = langOut

\* C12 witness: ' SHELL' followed by a tab, a no-break space and a line feed was
\* normalized to 'bash', and 'bash' again to 'bash'.
C12_Witness ==
    /\ langPhase = "again"
    /\ langIn = Str(<<" ", "S", "H", "E", "L", "L", "\t", "U+00A0", "\n">>)
    /\ langOut = Str(bash)
    /\ langAgain = Str(bash)

\* the class list holds no language marker
NoMarker(classList) == \A i \in DOMAIN classList : ~StartsWith(classList[i], LanguagePrefix)

\* C13: normalizeLang returns 'javascript' for undefined, null and the empty string, and
\* after highlightCodeBlocks a code block that carried no language marker, and its pre
\* element, are marked 'language-javascript'.
C13_DefaultLanguage ==
    /\ (langPhase # "drawn" /\ langIn \in {Undefined, Null, Str(<<>>)})
       => langOut = Str(javascript)
    /\ hlDone =>
        \A i \in DOMAIN codeBlocks :
            NoMarker(codeIn[i].classList)
            => /\ codeBlocks[i].classList = <<LanguagePrefix \o javascript>>
               /\ codeBlocks[i].preClass = LanguagePrefix \o javascript

\* C13 witness: undefined was normalized to 'javascript', and a document whose second
\* code block has no class was highlighted.
C13_Witness ==
    /\ langPhase # "drawn" /\ langIn = Undefined /\ langOut = Str(javascript)
    /\ hlDone /\ Len(codeIn) = 2 /\ codeIn[2].classList = <<>>
    /\ codeBlocks[2].preClass = LanguagePrefix \o javascript

\* C14: whatever the raw tag (absent, empty, any letter case, padded with whitespace,
\* only whitespace), normalizeLang returns a non-empty string.
C14_ResultNonEmpty ==
    langPhase # "drawn" => (langOut.kind = "string" /\ langOut.chars # <<>>)

\* C15: for a non-empty tag whose word has no entry in the alias table, normalizeLang
\* returns the tag itself, as a string, in its lower-cased and trimmed form.
C15_PassThrough ==
    (/\ langPhase # "drawn"
     /\ langIn.kind = "string" /\ langIn.chars # <<>>
     /\ langWord \notin Keys(ClaimedAliases))
    => langOut = Str(toLowerCase(langWord))

\* the tag of a code element as marked.parse emitted it: what follows 'language-' in
\* its first language class, or the empty tag
MarkerTag(classList) ==
    LET cls == FindLanguageClass(classList)
    IN  IF cls = Undefined THEN <<>> ELSE RemoveLanguagePrefix(cls.chars)

\* the normalized tag as the contract states it: the default for the empty tag, the
\* canonical name for an alias, else the tag in lower case
ClaimedLang(tag) ==
    IF tag = <<>> THEN javascript
    ELSE IF toLowerCase(tag) \in Keys(ClaimedAliases)
         THEN ValueOf(ClaimedAliases, toLowerCase(tag))
         ELSE toLowerCase(tag)

\* C16: after highlightCodeBlocks every code block and its pre element are marked
\* 'language-<normalized tag>', whether or not a grammar exists; the block holds the
\* highlighter's output under that grammar if the grammar exists and is unchanged if not.
C16_MarkersAndContent ==
    hlDone =>
        \A i \in DOMAIN codeBlocks :
            LET e == ClaimedLang(MarkerTag(codeIn[i].classList))
            IN  /\ codeBlocks[i].classList = <<LanguagePrefix \o e>>
                /\ codeBlocks[i].preClass = LanguagePrefix \o e
                /\ codeBlocks[i].content =
                       IF e \in languages THEN [highlighted |-> TRUE, grammar |-> e]
                       ELSE codeIn[i].content

\* C17: from the moment a successful activation shows 'Copied!' the control reads
\* 'Copied!', with the copied mark, for the two seconds that follow, also when an earlier
\* activation of the same control is still inside its own two seconds.
C17_CopiedForTwoSeconds ==
    \A b \in CopyBlocks :
        (copiedAt[b] >= 0 /\ now < copiedAt[b] + CopyWindow)
        => (label[b] = "Copied!" /\ copied[b])

\* C18: a step of one block's activation (the click, the end of its clipboard write)
\* changes neither the label nor the copied mark of another block; and while a write of
\* one block is pending, a click on another block is handled and a pending write of
\* another block can complete.
C18_BlocksIndependent ==
    /\ [][\A b \in CopyBlocks :
            (Click(b) \/ WriteResolves(b) \/ WriteRejects(b))
            => \A c \in CopyBlocks \ {b} : label'[c] = label[c] /\ copied'[c] = copied[c]]_vars
    /\ [](\A b, c \in CopyBlocks :
            (b # c /\ writes[b] > 0)
            => /\ clicks < MaxClicks => ENABLED Click(c)
               /\ writes[c] > 0 => ENABLED WriteResolves(c))

\* C18 witness: block 1 shows 'Copied!' with its revert timer pending and a further write
\* pending, while block 2, activated meanwhile, still reads 'Copy' with its write pending.
C18_Witness ==
    /\ label[1] = "Copied!" /\ timers[1] # <<>> /\ writes[1] > 0
    /\ label[2] = "Copy" /\ ~copied[2] /\ writes[2] > 0

\* C19: when the clipboard write of an activation fails, the label and the copied mark
\* stay as they were, no revert timer is scheduled and no failure leaves the handler.
C19_FailedWriteIsSilent ==
    [][\A b \in CopyBlocks :
        WriteRejects(b)
        => /\ label' = label /\ copied' = copied
           /\ timers' = timers
           /\ unhandled' = unhandled]_vars

\* C20: an activation of a TOC entry causes no navigation and leaves the URL fragment
\* equal to the id of the entry's heading, in the current history entry: the session
\* history has as many entries after the activation as before.
C20_TocClickReplacesFragment ==
    [][\A k \in DOMAIN toc.entries :
        TocClick(k)
        => /\ Len(history') = Len(history)
           /\ history'[Len(history')] = headings[toc.entries[k].heading].id
           /\ \A i \in 1..(Len(history) - 1) : history'[i] = history[i]]_vars

\* C20 witness: two entries were activated; the history still holds its one entry, now
\* with the slug of the heading 'A b' as fragment.
C20_Witness ==
    /\ tocClicks = 2
    /\ Len(history) = Len(InitialHistory)
    /\ history[1] = <<"a", "-", "b">>

\* C21: an activation of a TOC entry scrolls into view the heading the entry was built
\* from, also when two tracked headings carry the same id or an element outside the
\* rendered subtree carries it.
C21_ScrollsOwnHeading ==
    [][\A k \in DOMAIN toc.entries :
        TocClick(k) => scrolledTo' = toc.entries[k].heading]_vars

\* the entries of the table of contents built from heading h
EntriesOf(h) == {k \in DOMAIN toc.entries : toc.entries[k].heading = h}

\* C22: when the last entry a callback handles reports heading h entering, exactly the
\* entry built from h is marked active afterwards; and at most one entry is marked active
\* in every state.
C22_EnteredHeadingIsActive ==
    /\ [](Cardinality(active) <= 1)
    /\ [][\A es \in ObserverBatches :
            (ObserverCallback(es) /\ es[Len(es)].isIntersecting)
            => active' = EntriesOf(es[Len(es)].target)]_vars

\* C23: an observer callback changes nothing but the active marks: the headings, the
\* table of contents, the history with the URL fragment, the scroll position, the timers
\* and the copy controls stay as they were; a callback that reports only headings
\* leaving changes no mark either.
C23_ObserverChangesMarksOnly ==
    [][obsCalls' = obsCalls + 1
        => /\ headings' = headings /\ injected' = injected /\ toc' = toc
           /\ history' = history /\ scrolledTo' = scrolledTo /\ deepLink' = deepLink
           /\ label' = label /\ copied' = copied /\ timers' = timers
           /\ obsLast' = "left" => active' = active]_vars

\* C23 witness: after a callback that reported only headings leaving, the second entry
\* is still the one marked active.
C23_Witness ==
    /\ obsCalls = 2 /\ obsLast = "left"
    /\ active = {2}

\* C24: over the page's lifetime at most one deep-link scroll is scheduled and at most
\* one is executed.
C24_AtMostOneDeepLink ==
    deepLink.scheduled <= 1 /\ deepLink.executed <= 1

\* C25: the element the block's deep-link scroll is scheduled for is a heading of the
\* rendered subtree whose id is the fragment the URL carried when the block was mounted,
\* never an element outside the subtree.
C25_TargetInsideSubtree ==
    \A i \in DOMAIN deepLink.pending :
        deepLink.pending[i].run = "this"
        => /\ deepLink.pending[i].target \in DOMAIN headings
           /\ headings[deepLink.pending[i].target].id = hashAtMount

\* C26: scheduling the deep-link scroll (in a run of this or another block) and executing
\* it change no active mark.
C26_DeepLinkKeepsActive ==
    [][(RenderPage \/ OtherBlockRenders \/ DeepLinkFires) => active' = active]_vars

\* C26 witness: the URL carried the fragment 'x', the heading with id 'x' was scrolled
\* into view by the deep-link timer, and the entry marked active is the one the observer
\* marked, that of another heading.
C26_Witness ==
    /\ hashAtMount = <<"x">> /\ tocClicks = 0 /\ fragChanges = 0
    /\ deepLink.executed = 1
    /\ scrolledTo = 2 /\ headings[2].id = <<"x">>
    /\ active = {1}


\* C30: after addHeadingAnchors every heading of the subtree has a non-empty id, and the
\* self-link appended to it points at '#' followed by that id, whatever the heading's
\* text, a text without any word character included.
C30_EveryHeadingHasId ==
    (phase = "anchored" /\ runs = 1)
    => \A i \in DOMAIN headings :
          /\ headings[i].id # <<>>
          /\ Len(headings[i].anchors) = 1
          /\ headings[i].anchors[1] = <<"#">> \o headings[i].id


RECURSIVE IsPrefix(_, _)
\* s is an initial part of t
IsPrefix(s, t) ==
    \/ s = <<>>
    \/ /\ t # <<>> /\ Head(s) = Head(t)
       /\ IsPrefix(Tail(s), Tail(t))

\* C27: the steps of every run happen in the order inputs, conversion, injection,
\* highlighting, copy controls, heading anchors, table of contents, deep link; a run
\* that ended successfully has done all of them, the placeholder is replaced by the
\* document, and every entry of the table of contents links to '#' followed by the id
\* its heading has after augmentation.
C27_StepsInOrder ==
    \A m \in Mounts :
        /\ IsPrefix(steps[m], RenderOrder)
        /\ region[m].toc.built => \A i \in DOMAIN region[m].headings :
                                      Len(region[m].headings[i].anchors) = 1
        /\ runAt[m] = "done"
            => /\ steps[m] = RenderOrder
               /\ region[m].placeholder = "detached" /\ region[m].html
               /\ region[m].highlighted /\ region[m].buttons
               /\ \A k \in DOMAIN region[m].toc.entries :
                     region[m].toc.entries[k].href
                       = <<"#">> \o region[m].headings[region[m].toc.entries[k].heading].id

\* C27 witness: a run ended successfully with a table of contents built and a deep-link
\* scroll scheduled.
C27_Witness ==
    \E m \in Mounts :
        /\ runAt[m] = "done"
        /\ region[m].toc.built /\ region[m].observing
        /\ region[m].timer # <<>>

\* C28: from the injection to the scheduling of the deep link a run is not interrupted:
\* while a run is inside that phase, the next step taken on the page is that run's own
\* next step, so no timer, click handler, observer callback or other run acts on a
\* partially augmented document; at most one run is inside the phase at any time.
C28_PhaseUninterrupted ==
    /\ [](Cardinality({m \in Mounts : runAt[m] \in InPhase}) <= 1)
    /\ [][\A m \in Mounts : runAt[m] \in InPhase => runAt'[m] # runAt[m]]_vars

\* C28 witness: a run is building its table of contents while another run has ended,
\* callbacks have run and the other run's deep-link timer is pending.
C28_Witness ==
    \E m, o \in Mounts :
        /\ runAt[m] = "toc" /\ running = m
        /\ runAt[o] = "done" /\ region[o].timer # <<>>
        /\ events > 0

\* C29: when a run has ended in its catch clause, the placeholder that holds the failure
\* message is still attached to the content region and no rendered document is present.
C29_FailureMessageVisible ==
    \A m \in Mounts :
        runAt[m] = "failed"
        => /\ region[m].message = "failed"
           /\ region[m].placeholder = "attached"
           /\ ~region[m].html

====
